---------------------------- MODULE Spec2Model ----------------------------
(***************************************************************************)
(* A state-machine model of airbnb.py: the script reads a CSV file into a  *)
(* dataframe df, cleans it section by section, prints/plots summaries and  *)
(* exports the cleaned table.  One action per numbered section (a section  *)
(* whose statements can raise is one action that either completes or       *)
(* stops the run with the exception).                                      *)
(*                                                                         *)
(* Representation.                                                         *)
(*  - A Python string is a sequence of one-character strings.              *)
(*  - A dataframe cell is a record [k, s, v, e, int]: a string Str(s), a   *)
(*    number or the missing marker NaN.  A number is held exactly: it is   *)
(*        (v * 2^GridBits + e) / (Scale * 2^GridBits),                     *)
(*    v being its nearest count of hundredths and e what is left over.     *)
(*    An int64 has e = 0 (100 is v = 10000); the float64 written 32.09,    *)
(*    which is a little above 32.09, has v = 3209 and e = 48 * 2^15.       *)
(*  - A dataframe is [cols |-> sequence of names, rows |-> sequence of     *)
(*    rows], a row being a sequence of cells aligned with cols.            *)
(*                                                                         *)
(* Arithmetic.  Reading a number, 365 - x, the sum of a group and its mean *)
(* are computed as float64 computes them: the exact result rounded to the  *)
(* nearest number with a 53-bit significand, ties to even (FloatRound).    *)
(*                                                                         *)
(* Scope.  Printing and plotting change no variable; a plot is modelled by *)
(* what it needs, the columns it is given being present.  df_scatter       *)
(* (section 12) is a frame of its own and is not kept.  The input files    *)
(* have at least one row and column names that stay distinct once          *)
(* normalized.  Their text is Latin-1 (U+0000..U+00FF).  A number is       *)
(* written as a decimal literal with at most two fractional digits: no     *)
(* exponent, no "inf", no negative zero (-0, -0.0), no field that is a     *)
(* number with whitespace around it; no column holds only True/False       *)
(* (which read_csv would read as booleans).  Numbers, and the sum of the   *)
(* prices of a neighborhood, are below 8192 in magnitude; no price is      *)
(* negative, and a mean price is zero or at least 0.001.                   *)
(***************************************************************************)
EXTENDS Integers, Sequences, FiniteSets, TLC

VARIABLES
    file,               \* Airbnb_Open_Data.csv: [header, rows] of raw text; never written
    df,                 \* the dataframe df
    pc,                 \* the section the script is about to run
    err,                \* "none", or the reason the run stopped with an exception
    avg_price_neighborhood, \* section 10: per-neighborhood mean price (or <<>>)
    top_10_expensive,   \* section 10: nlargest(10, "price")
    top_10_cheap,       \* section 10: nsmallest(10, "price")
    exported            \* the table written by section 14, or NotExported

vars == <<file, df, pc, err, avg_price_neighborhood, top_10_expensive,
          top_10_cheap, exported>>

----------------------------------------------------------------------------
(* Characters and strings *)

\* The whitespace characters of Latin-1 that have no escape in a string
\* (str.isspace() is true of them): U+000B, U+001C..U+001F, U+0085, U+00A0.
c_vt == ""
c_fs == ""
c_gs == ""
c_rs == ""
c_us == ""
c_nel == ""
c_nbsp == " "

\* The capital letters of Latin-1 and, aligned with them, what str.lower()
\* makes of each: A-Z, U+00C0..U+00D6, U+00D8..U+00DE.
UpperChars == <<"A","B","C","D","E","F","G","H","I","J","K","L","M",
               "N","O","P","Q","R","S","T","U","V","W","X","Y","Z",
               "À","Á","Â","Ã","Ä","Å","Æ","Ç","È","É","Ê","Ë","Ì",
               "Í","Î","Ï","Ð","Ñ","Ò","Ó","Ô","Õ","Ö","Ø","Ù","Ú",
               "Û","Ü","Ý","Þ">>
LowerChars == <<"a","b","c","d","e","f","g","h","i","j","k","l","m",
               "n","o","p","q","r","s","t","u","v","w","x","y","z",
               "à","á","â","ã","ä","å","æ","ç","è","é","ê","ë","ì",
               "í","î","ï","ð","ñ","ò","ó","ô","õ","ö","ø","ù","ú",
               "û","ü","ý","þ">>
DigitChars == <<"0","1","2","3","4","5","6","7","8","9">>

\* The characters of Latin-1 in code-point order (Python compares strings by
\* code point): the whitespace controls, the printable ASCII characters
\* (without U+0060, which a string constant cannot hold), U+0085 and
\* U+00A0..U+00FF.
CodeOrder ==
    <<"\t", "\n", c_vt, "\f", "\r", c_fs, c_gs, c_rs, c_us, " ">>
    \o <<"!","\"","#","$","%","&","'","(",")","*","+",",","-",
          ".","/","0","1","2","3","4","5","6","7","8","9",":",
          ";","<","=",">","?","@","A","B","C","D","E","F","G",
          "H","I","J","K","L","M","N","O","P","Q","R","S","T",
          "U","V","W","X","Y","Z","[","\\","]","^","_","a",
          "b","c","d","e","f","g","h","i","j","k","l","m","n",
          "o","p","q","r","s","t","u","v","w","x","y","z","{",
          "|","}","~">>
    \o <<c_nel, c_nbsp>>
    \o <<"¡","¢","£","¤","¥","¦","§","¨","©","ª","«","¬","­",
          "®","¯","°","±","²","³","´","µ","¶","·","¸","¹","º",
          "»","¼","½","¾","¿","À","Á","Â","Ã","Ä","Å","Æ","Ç",
          "È","É","Ê","Ë","Ì","Í","Î","Ï","Ð","Ñ","Ò","Ó","Ô",
          "Õ","Ö","×","Ø","Ù","Ú","Û","Ü","Ý","Þ","ß","à","á",
          "â","ã","ä","å","æ","ç","è","é","ê","ë","ì","í","î",
          "ï","ð","ñ","ò","ó","ô","õ","ö","÷","ø","ù","ú","û",
          "ü","ý","þ","ÿ">>

RangeOf(s) == {s[i] : i \in 1..Len(s)}

OrdOf == [c \in RangeOf(CodeOrder) |->
            CHOOSE i \in 1..Len(CodeOrder) : CodeOrder[i] = c]

Ord(c) == OrdOf[c]

\* the characters str.strip() removes
Whitespace == {"\t", "\n", c_vt, "\f", "\r", c_fs, c_gs, c_rs, c_us, " ",
               c_nel, c_nbsp}

LowerOf == [c \in RangeOf(UpperChars) |->
              LowerChars[CHOOSE i \in 1..Len(UpperChars) : UpperChars[i] = c]]

\* str.lower() on one character
LowerChar(c) == IF c \in DOMAIN LowerOf THEN LowerOf[c] ELSE c

\* str.lower()
Lower(s) == [i \in 1..Len(s) |-> LowerChar(s[i])]

\* s without its leading and trailing characters of the set chars
StripChars(s, chars) ==
    LET keep == {i \in 1..Len(s) : s[i] \notin chars}
    IN  IF keep = {} THEN <<>>
        ELSE LET lo == CHOOSE i \in keep : \A j \in keep : i <= j
                 hi == CHOOSE i \in keep : \A j \in keep : j <= i
             IN  SubSeq(s, lo, hi)

\* str.strip(): remove leading and trailing whitespace
Strip(s) == StripChars(s, Whitespace)

StartsWith(s, old) ==
    /\ Len(old) <= Len(s)
    /\ SubSeq(s, 1, Len(old)) = old

\* str.replace(old, new): every non-overlapping occurrence, left to right
RECURSIVE Replace(_, _, _)
Replace(s, old, new) ==
    IF s = <<>> THEN <<>>
    ELSE IF StartsWith(s, old)
         THEN new \o Replace(SubSeq(s, Len(old) + 1, Len(s)), old, new)
         ELSE <<Head(s)>> \o Replace(Tail(s), old, new)

\* s < t in Python's string order
RECURSIVE StrLess(_, _)
StrLess(s, t) ==
    IF t = <<>> THEN FALSE
    ELSE IF s = <<>> THEN TRUE
    ELSE IF s[1] = t[1] THEN StrLess(Tail(s), Tail(t))
    ELSE Ord(s[1]) < Ord(t[1])

----------------------------------------------------------------------------
(* Cells *)

\* Hundredths per unit: a decimal literal of two fractional digits is v / Scale.
Scale == 100

\* A number is (v * 2^GridBits + e) / (Scale * 2^GridBits).  Every float64
\* from 2^-10 up is a whole number of such parts, a float64 with exponent E
\* (2^E <= x < 2^(E+1)) being a multiple of 2^(E - MantissaBits).
GridBits == 62

\* the bits of a float64 significand after the leading one
MantissaBits == 52

RECURSIVE Pow2(_)
Pow2(n) == IF n = 0 THEN 1 ELSE 2 * Pow2(n - 1)

\* 2^s modulo m
RECURSIVE Pow2Mod(_, _)
Pow2Mod(s, m) == IF s = 0 THEN 1 % m ELSE (2 * Pow2Mod(s - 1, m)) % m

\* the exponent of n / q for n, q > 0: the E with 2^E <= n / q < 2^(E+1)
RECURSIVE Exponent(_, _)
Exponent(n, q) ==
    IF n >= 2 * q THEN Exponent(n, 2 * q) + 1
    ELSE IF n < q THEN Exponent(2 * n, q) - 1
    ELSE 0

\* The exponent of the float64 grid around x = (v * 2^GridBits + e) / (Scale * d *
\* 2^GridBits), v > 0: that of v / (Scale * d), or the one below it when x is
\* just under a power of two.
GridExponent(v, e, d) ==
    LET q == Scale * d
        E == Exponent(v, q)
        \* v / q = 2^E
        power == IF E >= 0 THEN v = q * Pow2(E) ELSE v * Pow2(0 - E) = q
    IN  IF power /\ e < 0 THEN E - 1 ELSE E

\* One unit in the last place of a float64 of exponent E, in parts of
\* 1 / (Scale * d * 2^GridBits).
UlpParts(E, d) == Scale * d * Pow2(GridBits - MantissaBits + E)

\* Rounding x = (v * 2^GridBits + e) / (Scale * d * 2^GridBits), v > 0, to the
\* nearest float64, ties to the even significand: the e of the result.  With
\* s = MantissaBits - E, x in units in the last place is
\*     (v * 2^s) / (Scale * d)  +  e / UlpParts,
\* whose whole part and remainder are found from v * 2^s modulo Scale * d (and
\* modulo 2 * Scale * d for the parity of the whole part).
RoundNearest(v, e, d) ==
    LET q    == Scale * d
        E    == GridExponent(v, e, d)
        s    == MantissaBits - E
        ulp  == UlpParts(E, d)
        rho  == ((v % q) * Pow2Mod(s, q)) % q
        odd0 == ((v % (2 * q)) * Pow2Mod(s, 2 * q)) % (2 * q) >= q
        w    == (ulp \div q) * rho + e
        f    == w \div ulp
        r    == w % ulp
        odd  == odd0 # (f % 2 = 1)
        up   == 2 * r > ulp \/ (2 * r = ulp /\ odd)
    IN  e - r + (IF up THEN ulp ELSE 0)

\* The float64 nearest to (v * 2^GridBits + e) / (Scale * d * 2^GridBits): its e
\* (in parts of 1 / (Scale * d * 2^GridBits)).  With v = 0 the number is the
\* difference of two float64 that agree to the last places, itself a float64.
FloatRound(v, e, d) ==
    IF v = 0 THEN e
    ELSE IF v < 0 THEN 0 - RoundNearest(0 - v, 0 - e, d)
    ELSE RoundNearest(v, e, d)

\* A cell is a string, a number or NaN; int tells an int64 number from a
\* float64 one (a column holds one kind of number).
Str(s) == [k |-> "str", s |-> s, v |-> 0, e |-> 0, int |-> FALSE]
Float64(v, e) == [k |-> "num", s |-> <<>>, v |-> v, e |-> e, int |-> FALSE]
Int64(v) == [k |-> "num", s |-> <<>>, v |-> v, e |-> 0, int |-> TRUE]
NaN    == [k |-> "nan", s |-> <<>>, v |-> 0, e |-> 0, int |-> FALSE]

\* The float64 a decimal literal of v hundredths is read as: the one nearest
\* to v / Scale.
Num(v) == Float64(v, FloatRound(v, 0, 1))

\* a - b and a + b in float64, for a, b given by their v and e
FloatSub(a, b) ==
    LET v == a.v - b.v
    IN  [v |-> v, e |-> FloatRound(v, a.e - b.e, 1)]

FloatAdd(a, b) ==
    LET v == a.v + b.v
    IN  [v |-> v, e |-> FloatRound(v, a.e + b.e, 1)]

\* a < b for two numbers
NumLess(a, b) == a.v < b.v \/ (a.v = b.v /\ a.e < b.e)

DigitSet == RangeOf(DigitChars)

RECURSIVE DigitsValue(_)
DigitsValue(s) ==
    IF s = <<>> THEN 0
    ELSE 10 * DigitsValue(SubSeq(s, 1, Len(s) - 1))
         + (CHOOSE i \in 1..Len(DigitChars) : DigitChars[i] = s[Len(s)]) - 1

Unsigned(s) == IF s # <<>> /\ s[1] \in {"-", "+"} THEN Tail(s) ELSE s

\* digits [. digits] or . digits: at least one digit, at most one point
IsDecimal(b) ==
    /\ b # <<>>
    /\ \A i \in 1..Len(b) : b[i] \in DigitSet \cup {"."}
    /\ Cardinality({i \in 1..Len(b) : b[i] = "."}) <= 1
    /\ \E i \in 1..Len(b) : b[i] \in DigitSet

\* The text is a number to pandas' parser (read_csv, pd.to_numeric): a decimal
\* literal with an optional sign.
IsNumericText(s) == IsDecimal(Unsigned(s))

\* The text is an integer to pandas' parser: [sign] digits.
IsIntegerText(s) ==
    LET b == Unsigned(s)
    IN  b # <<>> /\ \A i \in 1..Len(b) : b[i] \in DigitSet

\* The value of a decimal literal, in hundredths.
NumValue(s) ==
    LET b     == Unsigned(s)
        dots  == {i \in 1..Len(b) : b[i] = "."}
        dot   == IF dots = {} THEN Len(b) + 1 ELSE CHOOSE i \in dots : TRUE
        whole == SubSeq(b, 1, dot - 1)
        frac  == SubSeq(SubSeq(b, dot + 1, Len(b)) \o <<"0", "0">>, 1, 2)
        mag   == Scale * DigitsValue(whole) + DigitsValue(frac)
    IN  IF s[1] = "-" THEN 0 - mag ELSE mag

----------------------------------------------------------------------------
(* Dataframe helpers *)

HasCol(d, c) == \E i \in 1..Len(d.cols) : d.cols[i] = c

\* position of column c (df[c])
ColIdx(d, c) == CHOOSE i \in 1..Len(d.cols) : d.cols[i] = c

Cell(d, r, c) == d.rows[r][ColIdx(d, c)]

\* df[c] = vals: assign a column given as one cell per row; a new column is
\* appended on the right, an existing one is overwritten in place.
SetCol(d, c, vals) ==
    IF HasCol(d, c)
    THEN [d EXCEPT !.rows =
            [r \in 1..Len(d.rows) |->
                [d.rows[r] EXCEPT ![ColIdx(d, c)] = vals[r]]]]
    ELSE [cols |-> Append(d.cols, c),
          rows |-> [r \in 1..Len(d.rows) |-> Append(d.rows[r], vals[r])]]

\* df[c]: the column as a sequence of cells
Column(d, c) == [r \in 1..Len(d.rows) |-> d.rows[r][ColIdx(d, c)]]

\* the subsequence of s at the positions in keep, in order
RECURSIVE SelectIdx(_, _, _)
SelectIdx(s, keep, i) ==
    IF i > Len(s) THEN <<>>
    ELSE (IF i \in keep THEN <<s[i]>> ELSE <<>>) \o SelectIdx(s, keep, i + 1)

----------------------------------------------------------------------------
(* String literals of the script *)

s_host_id == <<"h","o","s","t","_","i","d">>
s_id == <<"i","d">>
s_country == <<"c","o","u","n","t","r","y">>
s_country_code == <<"c","o","u","n","t","r","y","_","c","o","d","e">>
s_price == <<"p","r","i","c","e">>
s_service_fee == <<"s","e","r","v","i","c","e","_","f","e","e">>
s_review_rate_number == <<"r","e","v","i","e","w","_","r","a","t","e","_","n","u","m","b","e","r">>
s_number_of_reviews == <<"n","u","m","b","e","r","_","o","f","_","r","e","v","i","e","w","s">>
s_reviews_per_month == <<"r","e","v","i","e","w","s","_","p","e","r","_","m","o","n","t","h">>
s_construction_year == <<"c","o","n","s","t","r","u","c","t","i","o","n","_","y","e","a","r">>
s_availability_365 == <<"a","v","a","i","l","a","b","i","l","i","t","y","_","3","6","5">>
s_days_booked == <<"d","a","y","s","_","b","o","o","k","e","d">>
s_host_is_superhost == <<"h","o","s","t","_","i","s","_","s","u","p","e","r","h","o","s","t">>
s_is_superhost == <<"i","s","_","s","u","p","e","r","h","o","s","t">>
s_room_type == <<"r","o","o","m","_","t","y","p","e">>
s_cancellation_policy == <<"c","a","n","c","e","l","l","a","t","i","o","n","_","p","o","l","i","c","y">>
s_neighborhood_group == <<"n","e","i","g","h","b","o","r","h","o","o","d","_","g","r","o","u","p">>
s_neighborhood == <<"n","e","i","g","h","b","o","r","h","o","o","d">>
s_host_identity_verified == <<"h","o","s","t","_","i","d","e","n","t","i","t","y","_","v","e","r","i","f","i","e","d">>

s_neighbourhood == <<"n","e","i","g","h","b","o","u","r","h","o","o","d">>
s_space == <<" ">>
s_underscore == <<"_">>
s_t == <<"t">>
s_nan == <<"n","a","n">>
Superhost == <<"S","u","p","e","r","h","o","s","t">>
RegularHost == <<"R","e","g","u","l","a","r"," ","H","o","s","t">>

----------------------------------------------------------------------------
(* Section 2: pd.read_csv *)

\* The fields read_csv takes for NaN (its default na_values): the empty field,
\* #N/A, #N/A N/A, #NA, -1.#IND, -1.#QNAN, -NaN, -nan, 1.#IND, 1.#QNAN, <NA>,
\* N/A, NA, NULL, NaN, None, n/a, nan, null.
NaValues ==
    {<<>>,
     <<"#","N","/","A">>,
     <<"#","N","/","A"," ","N","/","A">>,
     <<"#","N","A">>,
     <<"-","1",".","#","I","N","D">>,
     <<"-","1",".","#","Q","N","A","N">>,
     <<"-","N","a","N">>,
     <<"-","n","a","n">>,
     <<"1",".","#","I","N","D">>,
     <<"1",".","#","Q","N","A","N">>,
     <<"<","N","A",">">>,
     <<"N","/","A">>,
     <<"N","A">>,
     <<"N","U","L","L">>,
     <<"N","a","N">>,
     <<"N","o","n","e">>,
     <<"n","/","a">>,
     <<"n","a","n">>,
     <<"n","u","l","l">>}

\* read_csv infers one dtype per column from its fields: int64 when every field
\* is an integer, float64 when every field is a number or NaN, else object
\* (strings and NaN).
ColumnIsInteger(f, j) ==
    \A r \in 1..Len(f.rows) :
        f.rows[r][j] \notin NaValues /\ IsIntegerText(f.rows[r][j])

ColumnIsNumeric(f, j) ==
    \A r \in 1..Len(f.rows) :
        f.rows[r][j] \in NaValues \/ IsNumericText(f.rows[r][j])

ColumnDtype(f, j) ==
    IF ColumnIsInteger(f, j) THEN "int64"
    ELSE IF ColumnIsNumeric(f, j) THEN "float64"
    ELSE "object"

\* one field of a column of the given dtype
ParseField(text, dtype) ==
    IF text \in NaValues THEN NaN
    ELSE IF dtype = "int64" THEN Int64(NumValue(text))
    ELSE IF dtype = "float64" THEN Num(NumValue(text))
    ELSE Str(text)

\* the dtypes of the columns from column j on
RECURSIVE ColumnDtypes(_, _)
ColumnDtypes(f, j) ==
    IF j > Len(f.header) THEN <<>>
    ELSE <<ColumnDtype(f, j)>> \o ColumnDtypes(f, j + 1)

read_csv(f) ==
    LET dtypes == ColumnDtypes(f, 1)
    IN  [cols |-> f.header,
         rows |-> [r \in 1..Len(f.rows) |->
                     [j \in 1..Len(f.header) |->
                         ParseField(f.rows[r][j], dtypes[j])]]]

----------------------------------------------------------------------------
(* Section 3: clean column names *)

\* Mutant of CleanColumnName: the replacements run before lower() and strip()
CleanColumnNameLowerLast(c) ==
    Lower(Strip(Replace(Replace(c, s_space, s_underscore),
                        s_neighbourhood, s_neighborhood)))

\* .str.lower().str.strip().str.replace(" ", "_")
\*     .str.replace("neighbourhood", "neighborhood")
CleanColumnName(c) ==
    Replace(Replace(Strip(Lower(c)), s_space, s_underscore),
            s_neighbourhood, s_neighborhood)

CleanColumnNames(cols) == [i \in 1..Len(cols) |-> CleanColumnName(cols[i])]

----------------------------------------------------------------------------
(* Section 4: remove unnecessary columns *)

\* Mutant of columns_to_drop: the list also names price
columns_to_drop_and_price ==
    <<s_host_id, s_id, s_country, s_country_code, s_price>>

columns_to_drop == <<s_host_id, s_id, s_country, s_country_code>>

\* df.drop(columns=[col for col in columns_to_drop if col in df.columns])
DropColumns(d) ==
    LET keep == {i \in 1..Len(d.cols) : d.cols[i] \notin RangeOf(columns_to_drop)}
    IN  [cols |-> SelectIdx(d.cols, keep, 1),
         rows |-> [r \in 1..Len(d.rows) |-> SelectIdx(d.rows[r], keep, 1)]]

----------------------------------------------------------------------------
(* Section 6: remove duplicates *)

\* df.drop_duplicates(): keep="first" over all columns, NaN equals NaN; a frame
\* with no column or no row (DataFrame.empty) is returned as it is
DropDuplicates(d) ==
    IF d.cols = <<>> \/ d.rows = <<>> THEN d
    ELSE LET keep == {r \in 1..Len(d.rows) :
                         \A q \in 1..(r - 1) : d.rows[q] # d.rows[r]}
         IN  [d EXCEPT !.rows = SelectIdx(d.rows, keep, 1)]

----------------------------------------------------------------------------
(* Section 7: clean numeric columns *)

\* .replace(r"[\$,]", "", regex=True) on one string
StripCurrency(s) ==
    SelectIdx(s, {i \in 1..Len(s) : s[i] \notin {"$", ","}}, 1)

\* Series.replace(regex=True) rewrites the string cells only
ReplaceCurrency(cell) ==
    IF cell.k = "str" THEN Str(StripCurrency(cell.s)) ELSE cell

\* The characters float() ignores around a number: the ASCII whitespace of C
\* and the whitespace above U+007F; not U+001C..U+001F, which str.strip()
\* removes.
FloatWhitespace == {"\t", "\n", c_vt, "\f", "\r", " ", c_nel, c_nbsp}

FloatStrip(s) == StripChars(s, FloatWhitespace)

\* float(): an underscore may stand between two digits (PEP 515)
UnderscoresGroupDigits(b) ==
    \A i \in 1..Len(b) :
        b[i] = "_" => /\ 1 < i /\ i < Len(b)
                      /\ b[i - 1] \in DigitSet
                      /\ b[i + 1] \in DigitSet

RemoveUnderscores(s) == SelectIdx(s, {i \in 1..Len(s) : s[i] # "_"}, 1)

\* float() reads the text as nan: [sign] "nan" in any case, whitespace around
IsFloatNaNText(s) == Lower(Unsigned(FloatStrip(s))) = s_nan

\* float() reads the text as a decimal literal: whitespace around it ignored,
\* [sign] digits [. digits] with underscores grouping the digits
IsFloatDecimalText(s) ==
    LET b == Unsigned(FloatStrip(s))
    IN  UnderscoresGroupDigits(b) /\ IsDecimal(RemoveUnderscores(b))

\* float(x) succeeds on the cell
CanFloat(cell) ==
    cell.k = "str" => (IsFloatNaNText(cell.s) \/ IsFloatDecimalText(cell.s))

\* float(x): the result of astype(float) is a float64 column
ToFloat(cell) ==
    IF cell.k = "str"
    THEN (IF IsFloatNaNText(cell.s) THEN NaN
          ELSE Num(NumValue(RemoveUnderscores(FloatStrip(cell.s)))))
    ELSE IF cell.k = "num" THEN [cell EXCEPT !.int = FALSE]
    ELSE cell

\* clean_currency_column raises ValueError (astype(float) has no fallback)
CurrencyRaises(d, column) ==
    \E r \in 1..Len(d.rows) : ~CanFloat(ReplaceCurrency(Cell(d, r, column)))

clean_currency_column(d, column) ==
    [r \in 1..Len(d.rows) |-> ToFloat(ReplaceCurrency(Cell(d, r, column)))]

numeric_columns == <<s_review_rate_number, s_number_of_reviews,
                     s_reviews_per_month, s_construction_year,
                     s_availability_365>>

\* Mutant of ToNumericCoerce: errors="ignore" leaves an unparseable cell as is
ToNumericIgnore(cell) ==
    IF cell.k = "str" /\ IsNumericText(cell.s) THEN Num(NumValue(cell.s))
    ELSE cell

\* pd.to_numeric(x, errors="coerce") on one cell
ToNumericCoerce(cell) ==
    IF cell.k = "str"
    THEN (IF IsNumericText(cell.s) THEN Num(NumValue(cell.s)) ELSE NaN)
    ELSE cell

\* pd.to_numeric(df[col], errors="coerce"): the cells coerced; the result is
\* int64 when every cell was the text of an integer, float64 when some cell
\* was another text or NaN; a numeric column is returned as it is
to_numeric(col) ==
    LET vals == [r \in 1..Len(col) |-> ToNumericCoerce(col[r])]
    IN  IF \A r \in 1..Len(col) : col[r].k = "str" /\ IsIntegerText(col[r].s)
        THEN [r \in 1..Len(col) |-> Int64(vals[r].v)]
        ELSE vals

\* for col in numeric_columns[i..]: if col in df.columns: df[col] = to_numeric
RECURSIVE ConvertNumeric(_, _)
ConvertNumeric(d, i) ==
    IF i > Len(numeric_columns) THEN d
    ELSE LET col == numeric_columns[i]
         IN  IF HasCol(d, col)
             THEN ConvertNumeric(SetCol(d, col, to_numeric(Column(d, col))), i + 1)
             ELSE ConvertNumeric(d, i + 1)

----------------------------------------------------------------------------
(* Section 8: feature engineering *)

DaysInYear == 365

\* Mutant of DaysBookedOf: the subtraction reversed
DaysBookedReversed(cell) ==
    IF cell.k = "num"
    THEN (IF cell.int THEN Int64(cell.v - DaysInYear * Scale)
          ELSE LET x == FloatSub(cell, Int64(DaysInYear * Scale))
               IN  Float64(x.v, x.e))
    ELSE NaN

\* 365 - x on one cell: an int64 gives the int64 difference, a float64 the
\* float64 difference (the exact one rounded), NaN gives NaN
DaysBookedOf(cell) ==
    IF cell.k = "num"
    THEN (IF cell.int THEN Int64(DaysInYear * Scale - cell.v)
          ELSE LET x == FloatSub(Int64(DaysInYear * Scale), cell)
               IN  Float64(x.v, x.e))
    ELSE NaN

RECURSIVE NatDigits(_)
NatDigits(n) ==
    IF n < 10 THEN <<DigitChars[n + 1]>>
    ELSE NatDigits(n \div 10) \o <<DigitChars[(n % 10) + 1]>>

\* str(x) of a cell: the string itself, "nan", the digits of an int64, or the
\* repr of a float64 as read from the file (the shortest literal that reads back
\* as it: its one or two fractional digits; a cell does not hold the sign of a
\* zero)
PyStr(cell) ==
    IF cell.k = "str" THEN cell.s
    ELSE IF cell.k = "nan" THEN s_nan
    ELSE LET a    == IF cell.v < 0 THEN 0 - cell.v ELSE cell.v
             sign == IF cell.v < 0 THEN <<"-">> ELSE <<>>
             frac == a % Scale
             fd   == IF frac % 10 = 0 THEN <<DigitChars[(frac \div 10) + 1]>>
                     ELSE <<DigitChars[(frac \div 10) + 1],
                            DigitChars[(frac % 10) + 1]>>
         IN  IF cell.int THEN sign \o NatDigits(a \div Scale)
             ELSE sign \o NatDigits(a \div Scale) \o <<".">> \o fd

\* lambda x: "Superhost" if str(x).lower() == "t" else "Regular Host"
SuperhostLabel(cell) ==
    IF Lower(PyStr(cell)) = s_t THEN Str(Superhost) ELSE Str(RegularHost)

\* lambda x: "Verified Host" if str(x).lower() == "t" else "Non-Verified Host"
HostCategoryLabel(cell) ==
    IF Lower(PyStr(cell)) = s_t
    THEN Str(<<"V","e","r","i","f","i","e","d"," ","H","o","s","t">>)
    ELSE Str(<<"N","o","n","-","V","e","r","i","f","i","e","d"," ","H","o","s","t">>)

----------------------------------------------------------------------------
(* Section 9: basic exploratory analysis *)

\* .str is usable only on a column of strings (an all-numeric or all-NaN
\* column makes the accessor raise AttributeError)
IsStringColumn(d, c) == \E r \in 1..Len(d.rows) : Cell(d, r, c).k = "str"

\* the rows selected by df["cancellation_policy"].str.lower() == "strict"
StrictRows(d) ==
    {r \in 1..Len(d.rows) :
        /\ Cell(d, r, s_cancellation_policy).k = "str"
        /\ Lower(Cell(d, r, s_cancellation_policy).s) = <<"s","t","r","i","c","t">>}

\* value_counts() drops NaN; idxmax() of an empty series raises ValueError
StrictRoomIsEmpty(d) ==
    \A r \in StrictRows(d) : Cell(d, r, s_room_type) = NaN

----------------------------------------------------------------------------
(* Section 10: mean price per neighborhood, top 10 and bottom 10 *)

TopN == 10

\* order of two group keys of one column (numbers, or strings by code point)
KeyLess(a, b) ==
    IF a.k = "num" /\ b.k = "num" THEN NumLess(a, b)
    ELSE IF a.k = "str" /\ b.k = "str" THEN StrLess(a.s, b.s)
    ELSE a.k = "num"

RECURSIVE InsertKey(_, _)
InsertKey(x, s) ==
    IF s = <<>> THEN <<x>>
    ELSE IF KeyLess(x, Head(s)) THEN <<x>> \o s
    ELSE <<Head(s)>> \o InsertKey(x, Tail(s))

\* the keys of a groupby, ascending (groupby sorts its keys)
RECURSIVE SortKeys(_)
SortKeys(keys) ==
    IF keys = {} THEN <<>>
    ELSE LET x == CHOOSE a \in keys : TRUE
         IN  InsertKey(x, SortKeys(keys \ {x}))

\* One value added to the running sum of a group.  The groupby mean of pandas
\* sums with a compensation (Kahan): y = val - compensation, t = sumx + y,
\* compensation = (t - sumx) - y, sumx = t, each operation in float64.
KahanStep(acc, val) ==
    LET y == FloatSub(val, acc.compensation)
        t == FloatAdd(acc.sumx, y)
    IN  [sumx |-> t, compensation |-> FloatSub(FloatSub(t, acc.sumx), y)]

\* the sum of the cells of col at the rows of rs from row i on, in row order,
\* NaN cells skipped
RECURSIVE SumCells(_, _, _, _)
SumCells(col, rs, i, acc) ==
    IF i > Len(col) THEN acc.sumx
    ELSE SumCells(col, rs, i + 1,
                  IF i \in rs /\ col[i].k = "num" THEN KahanStep(acc, col[i])
                  ELSE acc)

\* The mean of the cells of col at the rows rs, NaN cells skipped: the float64
\* sumx / d, held exactly as (n * 2^GridBits + e) / (Scale * d * 2^GridBits), n
\* being the hundredths of the sum and d the number of values; d = 0 is the NaN
\* mean of a group with no value.
MeanOf(col, rs) ==
    LET zero  == [v |-> 0, e |-> 0]
        sumx  == SumCells(col, rs, 1, [sumx |-> zero, compensation |-> zero])
        d     == Cardinality({r \in rs : col[r].k = "num"})
    IN  [n |-> sumx.v, d |-> d,
         e |-> IF d = 0 THEN 0 ELSE FloatRound(sumx.v, sumx.e, d)]

\* df.groupby(key)[val].mean().reset_index(): one row per non-NaN key, keys
\* ascending
GroupMean(d, key, val) ==
    LET keycol == Column(d, key)
        valcol == Column(d, val)
        keys   == SortKeys(RangeOf(keycol) \ {NaN})
    IN  [i \in 1..Len(keys) |->
            [neighborhood |-> keys[i],
             price |-> MeanOf(valcol, {r \in 1..Len(keycol) : keycol[r] = keys[i]})]]

IsNaNMean(m) == m.d = 0

\* a.e / a.d < b.e / b.d, compared by whole parts and then by remainders
PartsLess(a, b) ==
    \/ a.e \div a.d < b.e \div b.d
    \/ /\ a.e \div a.d = b.e \div b.d
       /\ (a.e % a.d) * b.d < (b.e % b.d) * a.d

\* a < b for two non-NaN means: the fractions n / d decide when they differ
\* (they are then hundredths apart, the e parts far less), the e parts when
\* they are equal
MeanLess(a, b) ==
    \/ a.n * b.d < b.n * a.d
    \/ a.n * b.d = b.n * a.d /\ PartsLess(a, b)

\* x is placed before e: strictly smaller (ascending) or strictly larger
Before(x, e, ascending) ==
    IF ascending THEN MeanLess(x.price, e.price) ELSE MeanLess(e.price, x.price)

\* stable sort (mergesort in pandas): equal means keep their frame order
RECURSIVE InsertStable(_, _, _)
InsertStable(x, s, ascending) ==
    IF s = <<>> THEN <<x>>
    ELSE IF Before(x, Head(s), ascending) THEN <<x>> \o s
    ELSE <<Head(s)>> \o InsertStable(x, Tail(s), ascending)

RECURSIVE StableSort(_, _)
StableSort(s, ascending) ==
    IF s = <<>> THEN <<>>
    ELSE InsertStable(s[Len(s)], StableSort(SubSeq(s, 1, Len(s) - 1), ascending),
                      ascending)

\* nlargest / nsmallest with keep="first": the frames the call can return.
\* A frame of at most n rows is sorted whole by sort_values() with its default
\* sort, quicksort, which is not stable: the non-NaN rows come in any order
\* that is sorted, rows of equal mean in any order, and the NaN rows follow in
\* frame order.  Of a longer frame the call returns the first n of the stable
\* sort of the non-NaN rows, NaN rows, in frame order, filling up when fewer
\* than n remain.
SelectN(frame, n, ascending) ==
    LET valid  == SelectIdx(frame, {i \in 1..Len(frame) : ~IsNaNMean(frame[i].price)}, 1)
        nans   == SelectIdx(frame, {i \in 1..Len(frame) : IsNaNMean(frame[i].price)}, 1)
        m      == Len(valid)
        orders == {p \in [1..m -> 1..m] :
                      /\ \A i, j \in 1..m : i # j => p[i] # p[j]
                      /\ \A i, j \in 1..m :
                            i < j => ~Before(valid[p[j]], valid[p[i]], ascending)}
    IN  IF n >= Len(frame)
        THEN {[i \in 1..m |-> valid[p[i]]] \o nans : p \in orders}
        ELSE {SubSeq(StableSort(valid, ascending) \o nans, 1, n)}

\* Mutant of nlargest: sorted the wrong way round
nlargest_ascending(frame, n) == SelectN(frame, n, TRUE)

nlargest(frame, n) == SelectN(frame, n, FALSE)

nsmallest(frame, n) == SelectN(frame, n, TRUE)

----------------------------------------------------------------------------
(* The input files the model is run on *)

\* The header of Airbnb_Open_Data.csv (the columns the script
\* reads, in the dataset's spelling).
BaseHeader ==
    << <<"i","d">>,
       <<"h","o","s","t"," ","i","d">>,
       <<"h","o","s","t","_","i","d","e","n","t","i","t","y","_","v","e","r","i","f","i","e","d">>,
       <<"n","e","i","g","h","b","o","u","r","h","o","o","d"," ","g","r","o","u","p">>,
       <<"n","e","i","g","h","b","o","u","r","h","o","o","d">>,
       <<"c","o","u","n","t","r","y">>,
       <<"c","o","u","n","t","r","y"," ","c","o","d","e">>,
       <<"c","a","n","c","e","l","l","a","t","i","o","n","_","p","o","l","i","c","y">>,
       <<"r","o","o","m"," ","t","y","p","e">>,
       <<"C","o","n","s","t","r","u","c","t","i","o","n"," ","y","e","a","r">>,
       <<"p","r","i","c","e">>,
       <<"s","e","r","v","i","c","e"," ","f","e","e">>,
       <<"n","u","m","b","e","r"," ","o","f"," ","r","e","v","i","e","w","s">>,
       <<"r","e","v","i","e","w","s"," ","p","e","r"," ","m","o","n","t","h">>,
       <<"r","e","v","i","e","w"," ","r","a","t","e"," ","n","u","m","b","e","r">>,
       <<"a","v","a","i","l","a","b","i","l","i","t","y"," ","3","6","5">>,
       <<"h","o","s","t","_","i","s","_","s","u","p","e","r","h","o","s","t">> >>

\* One well-formed listing, as raw text, aligned with BaseHeader.
BaseRow ==
    << <<"1">>,                                 \* id
       <<"7">>,                                 \* host id
       <<"t">>,                                 \* host_identity_verified
       <<"B">>,                                 \* neighbourhood group
       <<"a","a">>,                             \* neighbourhood
       <<"U","S">>,                             \* country
       <<"U","S">>,                             \* country code
       <<"s","t","r","i","c","t">>,             \* cancellation_policy
       <<"P">>,                                 \* room type
       <<"2","0","0","5">>,                     \* Construction year
       <<"$","1","0","0",".","0","0">>,         \* price
       <<"$","5">>,                             \* service fee
       <<"9">>,                                 \* number of reviews
       <<"0",".","5">>,                         \* reviews per month
       <<"4">>,                                 \* review rate number
       <<"3","0","0">>,                         \* availability 365
       <<"t">>                                  \* host_is_superhost
    >>

\* A row is the base row with some fields rewritten.
Override(row, changes) ==
    [j \in 1..Len(row) |->
        IF \E ch \in changes : ch[1] = j
        THEN (CHOOSE ch \in changes : ch[1] = j)[2] ELSE row[j]]

RowPresets ==
    << BaseRow,
       \* other id: id='2'
       Override(BaseRow, {<<1, <<"2">>>>}),
       \* plain price: price='100.00'
       Override(BaseRow, {<<11, <<"1","0","0",".","0","0">>>>}),
       \* messy: price='$1,234.50', service fee=U+00A0 '$1_0', availability 365='0',
       \* host_is_superhost='T', cancellation_policy='Strict', neighbourhood='ab'
       Override(BaseRow, {<<11, <<"$","1",",","2","3","4",".","5","0">>>>,
                          <<12, <<c_nbsp,"$","1","_","0">>>>,
                          <<16, <<"0">>>>, <<17, <<"T">>>>,
                          <<8, <<"S","t","r","i","c","t">>>>, <<5, <<"a","b">>>>}),
       \* nulls: price='', availability 365='', host_is_superhost='None',
       \* room type='NA', review rate number='', cancellation_policy=''
       Override(BaseRow, {<<11, <<>>>>, <<16, <<>>>>, <<17, <<"N","o","n","e">>>>,
                          <<9, <<"N","A">>>>, <<15, <<>>>>, <<8, <<>>>>}),
       \* junk numerics: availability 365='abc', review rate number='x', Construction year='old'
       Override(BaseRow, {<<16, <<"a","b","c">>>>, <<15, <<"x">>>>, <<10, <<"o","l","d">>>>}),
       \* bad price: price='abc'
       Override(BaseRow, {<<11, <<"a","b","c">>>>}),
       \* bad fee: service fee=U+001C '$5'
       Override(BaseRow, {<<12, <<c_fs,"$","5">>>>}),
       \* flexible: cancellation_policy='flexible', host_identity_verified='f',
       \* host_is_superhost='1', availability 365='400', price='$0.20'
       Override(BaseRow, {<<8, <<"f","l","e","x","i","b","l","e">>>>, <<3, <<"f">>>>,
                          <<17, <<"1">>>>, <<16, <<"4","0","0">>>>,
                          <<11, <<"$","0",".","2","0">>>>}),
       \* fractions: availability 365='32.09', price='$0.10'
       Override(BaseRow, {<<16, <<"3","2",".","0","9">>>>,
                          <<11, <<"$","0",".","1","0">>>>}) >>

MaxRows == 3        \* rows of a file whose cells vary
MaxAbsent == 2      \* columns of the base header a file may lack
MaxParts == 2       \* pieces a generated column name is made of
ExtraNbh == 1       \* neighborhoods beyond 2 * TopN in the neighborhood files
FewNbh == 3         \* neighborhoods of the short neighborhood files

\* Files with every column, 1..MaxRows rows drawn from the presets.
FilesCells ==
    {[header |-> BaseHeader, rows |-> [i \in 1..Len(p) |-> RowPresets[p[i]]]] :
        p \in UNION {[1..n -> 1..Len(RowPresets)] : n \in 1..MaxRows}}

\* Files lacking up to MaxAbsent of the columns, with two rows.
FilesColumns ==
    {[header |-> SelectIdx(BaseHeader, (1..Len(BaseHeader)) \ absent, 1),
      rows |-> << SelectIdx(RowPresets[1], (1..Len(BaseHeader)) \ absent, 1),
                  SelectIdx(RowPresets[4], (1..Len(BaseHeader)) \ absent, 1) >>] :
        absent \in {a \in SUBSET (1..Len(BaseHeader)) :
                        Cardinality(a) \in 1..MaxAbsent}}

NameParts ==
    << <<"N","e","i","g","h","b","o","u","r","h","o","o","d">>,
       <<"n","e","i","g","h","b","o">>,
       <<"u","r","h","o","o","d">>,
       <<"É">>, <<"_">>, <<" ">>, <<"\t">>, <<c_vt>>, <<c_nbsp>> >>

RECURSIVE Concat(_)
Concat(ss) == IF ss = <<>> THEN <<>> ELSE Head(ss) \o Concat(Tail(ss))

\* Column names of 1..MaxParts pieces that are not blank.
GeneratedNames ==
    {name \in {Concat([i \in 1..Len(p) |-> NameParts[p[i]]]) :
                p \in UNION {[1..n -> 1..Len(NameParts)] : n \in 1..MaxParts}} :
        Strip(name) # <<>>}

\* Files with the base header less its two neighbourhood columns, one extra,
\* arbitrarily spelled column and one row.
FilesNames ==
    LET others == (1..Len(BaseHeader)) \ {4, 5}
    IN  {[header |-> Append(SelectIdx(BaseHeader, others, 1), name),
          rows |-> << Append(SelectIdx(BaseRow, others, 1), <<"x">>) >>] :
            name \in GeneratedNames}

\* Files holding only columns that section 4 removes (1, 2, 6 and 7 of the base
\* header), with two rows.
FilesPruned ==
    {[header |-> SelectIdx(BaseHeader, present, 1),
      rows |-> << SelectIdx(RowPresets[1], present, 1),
                  SelectIdx(RowPresets[2], present, 1) >>] :
        present \in (SUBSET {1, 2, 6, 7}) \ {{}}}

\* Neighborhood names "aa" < "ab" < ... in code-point order
NbhLetters == <<"a", "b", "c", "d", "e">>

NbhName(i) == << NbhLetters[((i - 1) \div Len(NbhLetters)) + 1],
                 NbhLetters[((i - 1) % Len(NbhLetters)) + 1] >>

\* the columns a run needs to reach the export, and neighbourhood
NbhColumns == {3, 5, 9, 11, 12, 13, 14, 15}

\* The prices of the listings of a neighborhood, one text per listing:
\*   1  one listing without a price                  (mean NaN)
\*   2  0.15                                         (mean 0.15)
\*   3  0.10 and 0.20                                (mean 0.15000000000000002)
\*   4  0.05 and 0.25                                (mean 0.15)
\*   5  1,234.50 and 50                              (mean 642.25)
PriceTexts ==
    << << <<>> >>,
       << <<"$","0",".","1","5">> >>,
       << <<"$","0",".","1","0">>, <<"$","0",".","2","0">> >>,
       << <<"$","0",".","0","5">>, <<"$","0",".","2","5">> >>,
       << <<"$","1",",","2","3","4",".","5","0">>, <<"$","5","0">> >> >>

\* The price levels of a file, in name order: no price with two levels that
\* differ in the last place only, three levels with a price, and levels that
\* are equal although their listings differ.
LevelOrders ==
    { <<1, 2, 3>>, <<3, 1, 2>>,
      <<2, 3, 5>>, <<5, 3, 2>>,
      <<4, 2, 5>>, <<2, 5, 4>> }

\* the listings of neighborhood i at a price level, the j-th with j reviews
NbhRows(i, level) ==
    [j \in 1..Len(PriceTexts[level]) |->
        SelectIdx(Override(BaseRow, {<<5, NbhName(i)>>,
                                     <<11, PriceTexts[level][j]>>,
                                     <<13, NatDigits(j)>>}),
                  NbhColumns, 1)]

\* Files with FewNbh, 2 * TopN or 2 * TopN + ExtraNbh neighborhoods, written in
\* descending name order.  In name order the first c[1] neighborhoods have the
\* first price level, those up to c[2] the second, the rest the third.
FilesNeighborhoods ==
    {[header |-> SelectIdx(BaseHeader, NbhColumns, 1),
      rows |-> Concat([q \in 1..n |->
                  LET i == n + 1 - q
                  IN  NbhRows(i, IF i <= c[1] THEN lv[1]
                                 ELSE IF i <= c[2] THEN lv[2] ELSE lv[3])])] :
        n \in {FewNbh, 2 * TopN, 2 * TopN + ExtraNbh},
        c \in {p \in (0..(2 * TopN + ExtraNbh)) \X (0..(2 * TopN + ExtraNbh)) :
                    p[1] <= p[2]},
        lv \in LevelOrders}

----------------------------------------------------------------------------
(* The run *)

NotExported == [written |-> FALSE, table |-> [cols |-> <<>>, rows |-> <<>>]]

Loaded(f) ==
    /\ file = f
    /\ df = read_csv(f)
    /\ pc = "clean_names"
    /\ err = "none"
    /\ avg_price_neighborhood = <<>>
    /\ top_10_expensive = <<>>
    /\ top_10_cheap = <<>>
    /\ exported = NotExported

\* Section 2 has run: df = pd.read_csv("Airbnb_Open_Data.csv")
Init ==
    \E f \in FilesCells \cup FilesColumns \cup FilesNames \cup FilesPruned :
        Loaded(f)

Running(step) == pc = step /\ err = "none"

\* an exception ends the run where it is raised
Raise(e) == err' = e /\ pc' = pc

Goto(step) == pc' = step /\ err' = err

\* Section 3
CleanNames ==
    /\ Running("clean_names")
    /\ df' = [df EXCEPT !.cols = CleanColumnNames(df.cols)]
    /\ Goto("drop_columns")
    /\ UNCHANGED <<file, avg_price_neighborhood, top_10_expensive,
                   top_10_cheap, exported>>

\* Section 4
RemoveColumns ==
    /\ Running("drop_columns")
    /\ df' = DropColumns(df)
    /\ Goto("missing_values")
    /\ UNCHANGED <<file, avg_price_neighborhood, top_10_expensive,
                   top_10_cheap, exported>>

\* Section 5: prints df.isnull().sum(); reads only
CheckMissing ==
    /\ Running("missing_values")
    /\ Goto("drop_duplicates")
    /\ UNCHANGED <<file, df, avg_price_neighborhood, top_10_expensive,
                   top_10_cheap, exported>>

\* Section 6
RemoveDuplicates ==
    /\ Running("drop_duplicates")
    /\ df' = DropDuplicates(df)
    /\ Goto("clean_currency")
    /\ UNCHANGED <<file, avg_price_neighborhood, top_10_expensive,
                   top_10_cheap, exported>>

\* df after `if "price" in df.columns: df["price"] = clean_currency_column("price")`
\* when that statement does not raise
WithCurrency(d, column) ==
    IF HasCol(d, column) THEN SetCol(d, column, clean_currency_column(d, column))
    ELSE d

\* Section 7, lines 93-97: price, then service_fee
CleanCurrency ==
    /\ Running("clean_currency")
    /\ IF HasCol(df, s_price) /\ CurrencyRaises(df, s_price)
       THEN df' = df /\ Raise("bad_currency")
       ELSE LET d1 == WithCurrency(df, s_price)
            IN  IF HasCol(d1, s_service_fee) /\ CurrencyRaises(d1, s_service_fee)
                THEN df' = d1 /\ Raise("bad_currency")
                ELSE df' = WithCurrency(d1, s_service_fee) /\ Goto("to_numeric")
    /\ UNCHANGED <<file, avg_price_neighborhood, top_10_expensive,
                   top_10_cheap, exported>>

\* Section 7, lines 100-110
ToNumeric ==
    /\ Running("to_numeric")
    /\ df' = ConvertNumeric(df, 1)
    /\ Goto("days_booked")
    /\ UNCHANGED <<file, avg_price_neighborhood, top_10_expensive,
                   top_10_cheap, exported>>

\* Section 8, lines 120-121
DaysBooked ==
    /\ Running("days_booked")
    /\ df' = IF HasCol(df, s_availability_365)
             THEN SetCol(df, s_days_booked,
                         [r \in 1..Len(df.rows) |->
                            DaysBookedOf(Cell(df, r, s_availability_365))])
             ELSE df
    /\ Goto("superhost")
    /\ UNCHANGED <<file, avg_price_neighborhood, top_10_expensive,
                   top_10_cheap, exported>>

\* Section 8, lines 124-127
SuperhostColumn ==
    /\ Running("superhost")
    /\ df' = IF HasCol(df, s_host_is_superhost)
             THEN SetCol(df, s_is_superhost,
                         [r \in 1..Len(df.rows) |->
                            SuperhostLabel(Cell(df, r, s_host_is_superhost))])
             ELSE df
    /\ Goto("room_type")
    /\ UNCHANGED <<file, avg_price_neighborhood, top_10_expensive,
                   top_10_cheap, exported>>

\* Section 9, lines 134-136: prints value_counts; reads only
RoomTypeDistribution ==
    /\ Running("room_type")
    /\ Goto("strict_room")
    /\ UNCHANGED <<file, df, avg_price_neighborhood, top_10_expensive,
                   top_10_cheap, exported>>

\* Section 9, lines 139-145
StrictRoom ==
    /\ Running("strict_room")
    /\ IF HasCol(df, s_cancellation_policy) /\ HasCol(df, s_room_type)
       THEN IF ~IsStringColumn(df, s_cancellation_policy)
            THEN Raise("not_strings")
            ELSE IF StrictRoomIsEmpty(df) THEN Raise("empty_idxmax")
            ELSE Goto("avg_price_group")
       ELSE Goto("avg_price_group")
    /\ UNCHANGED <<file, df, avg_price_neighborhood, top_10_expensive,
                   top_10_cheap, exported>>

\* Section 9, lines 148-151: the guard checks neighborhood_group, not price
AvgPriceGroup ==
    /\ Running("avg_price_group")
    /\ IF HasCol(df, s_neighborhood_group) /\ ~HasCol(df, s_price)
       THEN Raise("absent_column")
       ELSE Goto("neighborhoods")
    /\ UNCHANGED <<file, df, avg_price_neighborhood, top_10_expensive,
                   top_10_cheap, exported>>

\* Section 10, lines 157-196: the guard checks neighborhood only; the means and
\* the two lists are assigned before the plots that read room_type and
\* service_fee
Neighborhoods ==
    /\ Running("neighborhoods")
    /\ IF ~HasCol(df, s_neighborhood)
       THEN /\ Goto("construction_year")
            /\ UNCHANGED <<avg_price_neighborhood, top_10_expensive, top_10_cheap>>
       ELSE IF ~HasCol(df, s_price)
       THEN /\ Raise("absent_column")
            /\ UNCHANGED <<avg_price_neighborhood, top_10_expensive, top_10_cheap>>
       ELSE /\ avg_price_neighborhood' = GroupMean(df, s_neighborhood, s_price)
            /\ top_10_expensive' \in nlargest(avg_price_neighborhood', TopN)
            /\ top_10_cheap' \in nsmallest(avg_price_neighborhood', TopN)
            /\ IF HasCol(df, s_room_type) /\ HasCol(df, s_service_fee)
               THEN Goto("construction_year")
               ELSE Raise("absent_column")
    /\ UNCHANGED <<file, df, exported>>

\* Section 11: plots value_counts().sort_index(); reads only
ConstructionYear ==
    /\ Running("construction_year")
    /\ Goto("review_rate")
    /\ UNCHANGED <<file, df, avg_price_neighborhood, top_10_expensive,
                   top_10_cheap, exported>>

\* Section 12: the box plot of line 220 is not guarded; df_scatter (lines
\* 227-234) is a separate frame, df is only read
ReviewRateVsPrice ==
    /\ Running("review_rate")
    /\ IF HasCol(df, s_review_rate_number) /\ HasCol(df, s_price)
       THEN Goto("host_category")
       ELSE Raise("absent_column")
    /\ UNCHANGED <<file, df, avg_price_neighborhood, top_10_expensive,
                   top_10_cheap, exported>>

\* Section 13: nothing is guarded; is_superhost is assigned before the two
\* box plots that read number_of_reviews and reviews_per_month
HostCategory ==
    /\ Running("host_category")
    /\ IF ~HasCol(df, s_host_identity_verified)
       THEN df' = df /\ Raise("absent_column")
       ELSE /\ df' = SetCol(df, s_is_superhost,
                            [r \in 1..Len(df.rows) |->
                               HostCategoryLabel(Cell(df, r, s_host_identity_verified))])
            /\ IF HasCol(df, s_number_of_reviews) /\ HasCol(df, s_reviews_per_month)
               THEN Goto("export")
               ELSE Raise("absent_column")
    /\ UNCHANGED <<file, avg_price_neighborhood, top_10_expensive,
                   top_10_cheap, exported>>

\* Section 14
Export ==
    /\ Running("export")
    /\ exported' = [written |-> TRUE, table |-> df]
    /\ Goto("done")
    /\ UNCHANGED <<file, df, avg_price_neighborhood, top_10_expensive,
                   top_10_cheap>>

Next ==
    \/ CleanNames
    \/ RemoveColumns
    \/ CheckMissing
    \/ RemoveDuplicates
    \/ CleanCurrency
    \/ ToNumeric
    \/ DaysBooked
    \/ SuperhostColumn
    \/ RoomTypeDistribution
    \/ StrictRoom
    \/ AvgPriceGroup
    \/ Neighborhoods
    \/ ConstructionYear
    \/ ReviewRateVsPrice
    \/ HostCategory
    \/ Export

Spec == Init /\ [][Next]_vars

\* The same script on the neighborhood files
InitNbh == \E f \in FilesNeighborhoods : Loaded(f)

SpecNbh == InitNbh /\ [][Next]_vars

----------------------------------------------------------------------------
(* Vocabulary of the properties *)

StepNo(step) ==
    LET order == << "clean_names", "drop_columns", "missing_values",
                    "drop_duplicates", "clean_currency", "to_numeric",
                    "days_booked", "superhost", "room_type", "strict_room",
                    "avg_price_group", "neighborhoods", "construction_year",
                    "review_rate", "host_category", "export", "done" >>
    IN  CHOOSE i \in 1..Len(order) : order[i] = step

\* the script has completed the section named step
Completed(step) == StepNo(pc) > StepNo(step)

ColSet(d) == RangeOf(d.cols)

\* the column names the file has once section 3 has normalized them
FileColumns == {CleanColumnName(file.header[j]) : j \in 1..Len(file.header)}

PrunedNames == {s_host_id, s_id, s_country, s_country_code}

DerivedNames == {s_days_booked, s_is_superhost}

\* the file as read, under its normalized column names
NormalizedFile ==
    [cols |-> [j \in 1..Len(file.header) |-> CleanColumnName(file.header[j])],
     rows |-> read_csv(file).rows]

\* float() rejects the text once every "$" and "," is removed
UnparseableCurrency(text) ==
    LET t == SelectSeq(text, LAMBDA c : c # "$" /\ c # ",")
    IN  ~(IsFloatNaNText(t) \/ IsFloatDecimalText(t))

\* some cell of a currency column of the dataframe is a string that does not
\* parse once "$" and "," are removed
BadCurrencyCell(d) ==
    \E c \in {s_price, s_service_fee} \cap ColSet(d) : \E r \in 1..Len(d.rows) :
        Cell(d, r, c).k = "str" /\ UnparseableCurrency(Cell(d, r, c).s)

----------------------------------------------------------------------------
(* C1: no run stops because an expected column is absent: the steps that need
   the column are skipped and the rest, including the export, still run.
   Refuted: sections 9, 10, 12 and 13 read price, room_type, service_fee,
   review_rate_number, host_identity_verified, number_of_reviews and
   reviews_per_month without checking for them. *)
C1_AbsentColumnNeverAborts == err # "absent_column"

(* C3: from the end of feature engineering to the export no step changes the
   table: rows, columns and cells stay as the cleaning pipeline left them.
   Refuted: section 13 assigns df["is_superhost"]. *)
C3_ReportingLeavesTableUnchanged ==
    [][Completed("superhost") => df' = df]_vars

(* C4: in the exported table of a run whose input has host_is_superhost, the
   is_superhost label of every row is "Superhost" exactly when the row's
   host_is_superhost equals "t" case-insensitively, and "Regular Host"
   otherwise.  Refuted: section 13 overwrites the column with
   "Verified Host" / "Non-Verified Host" computed from host_identity_verified. *)
C4_ExportedSuperhostLabel ==
    (exported.written /\ HasCol(exported.table, s_host_is_superhost)) =>
        /\ HasCol(exported.table, s_is_superhost)
        /\ \A r \in 1..Len(exported.table.rows) :
              LET flag  == Cell(exported.table, r, s_host_is_superhost)
                  label == Cell(exported.table, r, s_is_superhost)
              IN  IF flag.k = "str" /\ Lower(flag.s) = s_t
                  THEN label = Str(Superhost)
                  ELSE label = Str(RegularHost)

(* C5: after every step the table has no more rows than before it, and once the
   header is normalized the column set changes only by losing pruned columns
   (host_id, id, country, country_code) or gaining the derived columns
   days_booked and is_superhost. *)
C5_RowsShrinkColumnsPrunedOrDerived ==
    [][/\ Len(df'.rows) <= Len(df.rows)
       /\ pc # "clean_names" =>
            /\ (ColSet(df) \ ColSet(df')) \subseteq PrunedNames
            /\ (ColSet(df') \ ColSet(df)) \subseteq DerivedNames]_vars

C5_Witness ==
    /\ pc = "done"
    /\ Len(df.rows) < Len(file.rows)
    /\ PrunedNames \subseteq FileColumns
    /\ PrunedNames \cap ColSet(df) = {}
    /\ DerivedNames \subseteq ColSet(df)
    /\ DerivedNames \cap FileColumns = {}

(* C6: parse failures split by column.  A string cell of a present currency
   column (price, service_fee) that is no number once "$" and "," are removed
   stops the run in the currency step, and nothing is exported.  In the numeric
   step every unparseable cell of a present numeric column becomes NaN, every
   parseable one its number, no other cell, column or row changes, and the run
   goes on. *)
C6_CurrencyAbortsNumericCoerces ==
    /\ [](exported.written => ~BadCurrencyCell(NormalizedFile))
    /\ [][/\ (pc = "clean_currency" /\ BadCurrencyCell(df)) =>
                (err' = "bad_currency" /\ pc' = "clean_currency"
                 /\ exported' = NotExported)
          /\ pc = "to_numeric" =>
                /\ err' = "none" /\ pc' = "days_booked"
                /\ df'.cols = df.cols
                /\ Len(df'.rows) = Len(df.rows)
                /\ \A r \in 1..Len(df.rows) : \A j \in 1..Len(df.cols) :
                      LET old == df.rows[r][j]
                          new == df'.rows[r][j]
                      IN  IF df.cols[j] \in RangeOf(numeric_columns) /\ old.k = "str"
                          THEN IF IsNumericText(old.s)
                               THEN new.k = "num" /\ new.v = NumValue(old.s)
                               ELSE new = NaN
                          ELSE new = old]_vars

\* the run stopped in the currency step with nothing exported: price had been
\* converted, then a service_fee cell did not parse
C6_Witness ==
    /\ pc = "clean_currency"
    /\ err = "bad_currency"
    /\ ~exported.written
    /\ \A r \in 1..Len(df.rows) : Cell(df, r, s_price).k # "str"
    /\ \E r \in 1..Len(df.rows) :
          /\ Cell(df, r, s_service_fee).k = "str"
          /\ UnparseableCurrency(Cell(df, r, s_service_fee).s)

(* C7: header normalization is idempotent: once section 3 has normalized the
   column names of a file, normalizing them again gives the same names. *)
C7_HeaderNormalizationIdempotent ==
    pc = "drop_columns" =>
        /\ \A j \in 1..Len(file.header) :
              CleanColumnName(CleanColumnName(file.header[j]))
                  = CleanColumnName(file.header[j])
        /\ CleanColumnNames(df.cols) = df.cols

\* normalization has rewritten a padded, capitalized "Neighbourhood"
C7_Witness ==
    /\ pc = "drop_columns"
    /\ \E j \in 1..Len(df.cols) :
          /\ df.cols[j] = s_neighborhood
          /\ file.header[j][1] \in Whitespace
          /\ "N" \in RangeOf(file.header[j])

\* the position of the first row of rows equal to row
FirstAt(rows, row) ==
    CHOOSE i \in 1..Len(rows) :
        rows[i] = row /\ \A q \in 1..(i - 1) : rows[q] # row

\* after holds each distinct row of before once, ordered by first occurrence
IsFirstOccurrences(after, before) ==
    /\ RangeOf(after) = RangeOf(before)
    /\ \A i, j \in 1..Len(after) :
          i < j => FirstAt(before, after[i]) < FirstAt(before, after[j])

(* C8: duplicate removal drops exactly the rows that repeat an earlier row: the
   result has no more rows, no two equal rows, keeps the first occurrences in
   order, and removing duplicates from it again changes nothing.
   Refuted: drop_duplicates returns a frame without columns as it is, so when
   section 4 has removed every column all the rows stay, one equal to the
   other. *)
C8_DuplicateRemoval ==
    [][pc = "drop_duplicates" =>
        /\ Len(df'.rows) <= Len(df.rows)
        /\ \A i, j \in 1..Len(df'.rows) : df'.rows[i] = df'.rows[j] => i = j
        /\ IsFirstOccurrences(df'.rows, df.rows)
        /\ df'.cols = df.cols
        /\ DropDuplicates(df') = df']_vars

\* the number of a cell lies in [0, 365]
InYear(c) ==
    /\ ~NumLess(c, Int64(0))
    /\ ~NumLess(Int64(DaysInYear * Scale), c)

(* C9 as claimed: when availability_365 is present, days_booked exists after
   feature engineering and, row by row, equals 365 - availability_365 exactly
   for a number in [0, 365] (so it lies in [0, 365] too) and is NaN when
   availability_365 is NaN; when availability_365 is absent no days_booked
   column is added.
   Refuted by a float64 column: with availability_365 = 32.09 the difference
   is not a float64, and days_booked is the float64 next to it
   (332.90999999999997). *)
C9_DaysBookedExact ==
    Completed("days_booked") =>
        IF HasCol(df, s_availability_365)
        THEN /\ HasCol(df, s_days_booked)
             /\ \A r \in 1..Len(df.rows) :
                   LET a == Cell(df, r, s_availability_365)
                       b == Cell(df, r, s_days_booked)
                   IN  /\ a.k # "str"
                       /\ (a.k = "num" /\ InYear(a)) =>
                             /\ b.k = "num"
                             /\ b.v + a.v = DaysInYear * Scale
                             /\ b.e + a.e = 0
                             /\ InYear(b)
                       /\ a = NaN => b = NaN
        ELSE HasCol(df, s_days_booked) => s_days_booked \in FileColumns

(* C9 amended: when availability_365 is present, days_booked exists after
   feature engineering and, row by row, for a number in [0, 365] it is a
   number of the same kind (int64 or float64) in [0, 365] that differs from
   365 - availability_365 by at most half a unit in its last place, and by
   nothing when availability_365 is a whole number; it is NaN when
   availability_365 is NaN; when availability_365 is absent no days_booked
   column is added. *)
C9_DaysBookedNearest ==
    Completed("days_booked") =>
        IF HasCol(df, s_availability_365)
        THEN /\ HasCol(df, s_days_booked)
             /\ \A r \in 1..Len(df.rows) :
                   LET a == Cell(df, r, s_availability_365)
                       b == Cell(df, r, s_days_booked)
                   IN  /\ a.k # "str"
                       /\ (a.k = "num" /\ InYear(a)) =>
                             /\ b.k = "num" /\ b.int = a.int
                             /\ b.v + a.v = DaysInYear * Scale
                             /\ b.v > 0 =>
                                   LET ulp == UlpParts(Exponent(b.v, Scale), 1)
                                   IN  /\ 2 * (b.e + a.e) <= ulp
                                       /\ 0 - 2 * (b.e + a.e) <= ulp
                             /\ (b.v = 0 \/ a.v % Scale = 0) => b.e + a.e = 0
                             /\ InYear(b)
                       /\ a = NaN => b = NaN
        ELSE HasCol(df, s_days_booked) => s_days_booked \in FileColumns

\* an exported table with a row available 300 days and booked 65, a row
\* available 32.09 days whose days_booked is not 365 - availability_365 but
\* the float64 next to it, and a row whose availability is NaN
C9_Witness ==
    /\ pc = "done"
    /\ HasCol(df, s_availability_365)
    /\ \E r \in 1..Len(df.rows) :
          /\ Cell(df, r, s_availability_365) = Num(300 * Scale)
          /\ Cell(df, r, s_days_booked) = Num(65 * Scale)
    /\ \E r \in 1..Len(df.rows) :
          /\ Cell(df, r, s_availability_365) = Num(3209)
          /\ Cell(df, r, s_days_booked).v = 33291
          /\ Cell(df, r, s_days_booked).e + Cell(df, r, s_availability_365).e # 0
    /\ \E r \in 1..Len(df.rows) :
          /\ Cell(df, r, s_availability_365) = NaN
          /\ Cell(df, r, s_days_booked) = NaN

\* the rows read from the file, restricted to the columns that survive pruning
SurvivingFileRows ==
    LET keep == {j \in 1..Len(file.header) :
                    CleanColumnName(file.header[j]) \notin PrunedNames}
        t    == read_csv(file)
    IN  [r \in 1..Len(t.rows) |-> SelectIdx(t.rows[r], keep, 1)]

(* C10: duplicates are removed after pruning and before coercion: the rows
   entering the currency step are the first occurrences, in file order, of the
   file's rows compared on the surviving columns only, and no later step
   removes a row, even when coercion makes two rows equal.
   Refuted: two rows that differ only in pruned columns are both kept when no
   other column exists (drop_duplicates on a frame without columns). *)
C10_DuplicatesAfterPruningBeforeCoercion ==
    /\ []((pc = "clean_currency" /\ err = "none") =>
            /\ IsFirstOccurrences(df.rows, SurvivingFileRows)
            /\ \A i, j \in 1..Len(df.rows) : df.rows[i] = df.rows[j] => i = j)
    /\ [][Completed("drop_duplicates") => Len(df'.rows) = Len(df.rows)]_vars

\* the neighborhoods with a valid (non-NaN) mean price
ValidMeans ==
    {avg_price_neighborhood[i] : i \in
        {i \in 1..Len(avg_price_neighborhood) :
            ~IsNaNMean(avg_price_neighborhood[i].price)}}

Names(list) == {list[i].neighborhood : i \in 1..Len(list)}

ListsDisjoint == Names(top_10_expensive) \cap Names(top_10_cheap) = {}

SortedDescending(list) ==
    \A i, j \in 1..Len(list) : i < j => ~MeanLess(list[i].price, list[j].price)

SortedAscending(list) ==
    \A i, j \in 1..Len(list) : i < j => ~MeanLess(list[j].price, list[i].price)

\* a neighborhood holding the 10th lowest valid mean price
TenthCheapest ==
    CHOOSE e \in ValidMeans :
        /\ Cardinality({x \in ValidMeans : MeanLess(x.price, e.price)}) < 10
        /\ Cardinality({x \in ValidMeans : ~MeanLess(e.price, x.price)}) >= 10

\* a neighborhood holding the 10th highest valid mean price
TenthDearest ==
    CHOOSE e \in ValidMeans :
        /\ Cardinality({x \in ValidMeans : MeanLess(e.price, x.price)}) < 10
        /\ Cardinality({x \in ValidMeans : ~MeanLess(x.price, e.price)}) >= 10

(* C2 as claimed: with at least 20 neighborhoods of valid mean price the two
   lists share no neighborhood and are sorted, whatever the mean prices are,
   ties included.  Refuted by ties: nlargest and nsmallest both keep the first
   of equal means. *)
C2_DisjointForEveryAssignment ==
    Cardinality(ValidMeans) >= 20 =>
        /\ ListsDisjoint
        /\ SortedDescending(top_10_expensive)
        /\ SortedAscending(top_10_cheap)

(* C2 amended: with at least 20 neighborhoods of valid mean price both lists
   hold 10 neighborhoods and are sorted (descending / ascending), and they
   share no neighborhood exactly when the 10th lowest mean price is strictly
   below the 10th highest. *)
C2_SortedAndDisjointUnlessTied ==
    Cardinality(ValidMeans) >= 20 =>
        /\ Len(top_10_expensive) = 10 /\ Len(top_10_cheap) = 10
        /\ SortedDescending(top_10_expensive)
        /\ SortedAscending(top_10_cheap)
        /\ ListsDisjoint <=> MeanLess(TenthCheapest.price, TenthDearest.price)

\* 21 neighborhoods, one without a price, 10 with one listing at 0.15 and 10
\* with two listings at 0.10 and 0.20: the lists are disjoint, although means
\* tie within each list and the sums of the two kinds are in the same
\* proportion to their counts
C2_Witness ==
    /\ Len(avg_price_neighborhood) = 21
    /\ Cardinality(ValidMeans) = 20
    /\ ListsDisjoint
    /\ ~MeanLess(top_10_cheap[1].price, top_10_cheap[10].price)
    /\ MeanLess(top_10_cheap[10].price, top_10_expensive[10].price)
    /\ top_10_cheap[10].price.d = 1 /\ top_10_expensive[10].price.d = 2
    /\ top_10_expensive[10].price.n = 2 * top_10_cheap[10].price.n


=============================================================================
